---------------------------- MODULE Spec2Model ----------------------------
(***************************************************************************)
(* Dialectica: two Streamlit chat scripts in front of a local LLM.         *)
(*   src/sl_llamachat.py       the plain chat script      ("llamachat")    *)
(*   src/sl_llm_philosopher.py the classification script  ("philosopher")  *)
(* Text is modelled as a sequence of one-character strings, so that        *)
(* concatenation, length and substring are computed and not assumed.       *)
(* A Streamlit interaction reruns the whole script: one action of the      *)
(* model is one run of main(), from the widget values to the point where   *)
(* the run ends: its last statement, an uncaught exception, or the st.*    *)
(* call at which the framework stops it because the user interacted again. *)
(*                                                                         *)
(* sl_llm_philosopher.py does not compile: line 67 has an unterminated     *)
(* string literal and lines 159/162 use the keyword `class` as a name.     *)
(* A run of that script therefore ends with SyntaxError before its first   *)
(* statement.  Its functions build_prompt, generate_response and           *)
(* display_chat_history are well-formed on their own and are modelled      *)
(* from their text.                                                        *)
(***************************************************************************)
EXTENDS Integers, Sequences, FiniteSets, TLC

VARIABLES
    script,         \* which of the two scripts the session runs
    chat_history,   \* st.session_state.chat_history
    user_input,     \* st.session_state.user_input (the text box)
    selected_tone,  \* the "Select Tone" selectbox
    log,            \* number of logging.error entries this session wrote
    runs,           \* number of script runs so far
    trigger,        \* the widget interaction that caused the last run
    calls,          \* adapter calls of the last run, in order
    crashed,        \* what ended the last run early, or "none"
    rendered,       \* what display_chat_history wrote in the last run
    added,          \* number of entries the last run appended
    submissions,    \* number of question submissions so far
    appended,       \* number of entries appended so far
    subs,           \* (question, tone) of the submissions since the last clear
    cut,            \* number of runs the framework or an escaping exception cut short
    u_pc,           \* function-level harness: position
    u_tone,         \* function-level harness: tone argument
    u_question,     \* function-level harness: question argument
    u_outcome,      \* function-level harness: what the adapter call does
    u_stop,         \* function-level harness: the framework stops st.error
    u_prompt,       \* function-level harness: build_prompt's result
    u_ret           \* function-level harness: generate_response's result

vars == <<script, chat_history, user_input, selected_tone, log, runs, trigger,
          calls, crashed, rendered, added, submissions, appended, subs, cut,
          u_pc, u_tone, u_question, u_outcome, u_stop, u_prompt, u_ret>>

session_vars == <<chat_history, user_input, selected_tone, log, runs, trigger,
                  calls, crashed, rendered, added, submissions, appended, subs,
                  cut>>

unit_vars == <<u_pc, u_tone, u_question, u_outcome, u_stop, u_prompt, u_ret>>

(***************************************************************************)
(* Bounds of the model.                                                    *)
(***************************************************************************)
\* longest question text the function-level harness draws
MaxQLen == 2
\* largest elapsed time (in clock ticks) an adapter call takes
MaxTime == 1
\* number of script runs in a session
MaxRuns == 3
\* how many of the selectbox's tones the session user picks among
TonesShown == 2

Scripts == {"llamachat", "philosopher"}

\* characters of the questions the function-level harness draws
Alphabet == {"a", "*", "{"}

RECURSIVE SeqsUpTo(_, _)
SeqsUpTo(S, n) ==
    IF n = 0 THEN {<<>>}
    ELSE LET shorter == SeqsUpTo(S, n - 1)
         IN  shorter \cup {Append(s, c) : s \in shorter, c \in S}

Questions == SeqsUpTo(Alphabet, MaxQLen)

\* what the user types in the session, and the lines of questions.txt
TypedTexts == {<<"a">>, <<"*", "b">>}
FileQuestions == {<<"a">>}

\* texts the model backend answers with
Responses == {<<"y">>, <<"n", "o">>}

(***************************************************************************)
(* Text constants of the two scripts.                                      *)
(***************************************************************************)
PromptExpert ==
    <<"Y", "o", "u", " ", "a", "r", "e", " ", "a", "n", " ", "e", "x", "p", "e", "r", "t", " ",
      "i", "n", " ", "d", "i", "s", "c", "u", "s", "s", "i", "n", "g", " ", "p", "h", "i", "l",
      "o", "s", "o", "p", "h", "i", "c", "a", "l", " ", "q", "u", "e", "s", "t", "i", "o", "n",
      "s", ".", " ">>

PromptToneOpen ==
    <<"Y", "o", "u", "r", " ", "t", "o", "n", "e", " ", "i", "s", ":", " ", "*", "*">>

PromptToneClose ==
    <<"*", "*", " ", "i", "n", " ", "n", "a", "t", "u", "r", "e", ".", " ">>

PromptPlease ==
    <<"P", "l", "e", "a", "s", "e", " ", "p", "r", "o", "v", "i", "d", "e", " ", "a", " ", "t",
      "h", "o", "u", "g", "h", "t", "f", "u", "l", " ", "a", "n", "d", " ", "d", "e", "t", "a",
      "i", "l", "e", "d", " ", "a", "n", "s", "w", "e", "r", " ", "t", "o", " ", "t", "h", "e",
      " ", "f", "o", "l", "l", "o", "w", "i", "n", "g", " ", "q", "u", "e", "s", "t", "i", "o",
      "n", ":", " ">>

PromptBold ==
    <<"*", "*">>

NoneStr ==
    <<"N", "o", "n", "e">>

philosopher_TONES ==
    <<
    <<"N", "e", "u", "t", "r", "a", "l">>,
    <<"A", "n", "a", "l", "y", "t", "i", "c", "a", "l">>,
    <<"S", "p", "e", "c", "u", "l", "a", "t", "i", "v", "e">>,
    <<"S", "o", "c", "r", "a", "t", "i", "c">>,
    <<"D", "i", "d", "a", "c", "t", "i", "c">>,
    <<"D", "i", "a", "l", "e", "c", "t", "i", "c", "a", "l">>,
    <<"C", "y", "n", "i", "c", "a", "l">>,
    <<"O", "p", "t", "i", "m", "i", "s", "t", "i", "c">>,
    <<"P", "e", "s", "s", "i", "m", "i", "s", "t", "i", "c">>,
    <<"E", "m", "p", "i", "r", "i", "c", "a", "l">>,
    <<"E", "x", "i", "s", "t", "e", "n", "t", "i", "a", "l">>,
    <<"N", "o", "r", "m", "a", "t", "i", "v", "e">>,
    <<"A", "b", "s", "u", "r", "d", "i", "s", "t">>
    >>

llamachat_TONES ==
    <<
    <<"A", "n", "a", "l", "y", "t", "i", "c", "a", "l">>,
    <<"S", "p", "e", "c", "u", "l", "a", "t", "i", "v", "e">>,
    <<"S", "o", "c", "r", "a", "t", "i", "c">>,
    <<"D", "i", "d", "a", "c", "t", "i", "c">>,
    <<"D", "i", "a", "l", "e", "c", "t", "i", "c", "a", "l">>,
    <<"C", "y", "n", "i", "c", "a", "l">>,
    <<"O", "p", "t", "i", "m", "i", "s", "t", "i", "c">>,
    <<"P", "e", "s", "s", "i", "m", "i", "s", "t", "i", "c">>,
    <<"E", "m", "p", "i", "r", "i", "c", "a", "l">>,
    <<"E", "x", "i", "s", "t", "e", "n", "t", "i", "a", "l">>,
    <<"N", "o", "r", "m", "a", "t", "i", "v", "e">>,
    <<"A", "b", "s", "u", "r", "d", "i", "s", "t">>
    >>

\* Python's None, distinct from every text
None == <<"NoneType">>

Neutral == philosopher_TONES[1]

SorryMsg == "Sorry, I couldn't generate a response."

TONES(s) == IF s = "llamachat" THEN llamachat_TONES ELSE philosopher_TONES

ToneNames == {philosopher_TONES[i] : i \in DOMAIN philosopher_TONES}

\* f"{tone}": str() of the argument
Format(x) == IF x = None THEN NoneStr ELSE x

Template(tone, text) ==
    PromptExpert
    \o PromptToneOpen \o Format(tone) \o PromptToneClose
    \o PromptPlease
    \o PromptBold \o text \o PromptBold

(***************************************************************************)
(* build_prompt                                                            *)
(***************************************************************************)
llamachat_build_prompt_dropped_tone(tone, text) ==
    PromptExpert \o PromptPlease \o PromptBold \o text \o PromptBold

llamachat_build_prompt(tone, text) ==
    Template(tone, text)

philosopher_build_prompt(tone, text) ==
    IF tone = None \/ tone = Neutral THEN text ELSE Template(tone, text)

build_prompt(s, tone, text) ==
    IF s = "llamachat" THEN llamachat_build_prompt(tone, text)
    ELSE philosopher_build_prompt(tone, text)

(***************************************************************************)
(* LlamaModel.get_response, after dt ticks:                                *)
(*   "ok"        returns a text                                            *)
(*   "exception" raises an Exception whose str() works                     *)
(*   "badstr"    raises an Exception whose str() raises                    *)
(*   "base"      raises a BaseException that is no Exception               *)
(*               (KeyboardInterrupt, SystemExit)                           *)
(***************************************************************************)
Outcomes ==
    [kind : {"ok"}, text : Responses, dt : 0 .. MaxTime]
    \cup [kind : {"exception", "badstr", "base"}, text : {<<>>}, dt : 0 .. MaxTime]

(***************************************************************************)
(* Python values: a dict (a function from keys), a tuple, or nothing when  *)
(* the call did not return.                                                *)
(***************************************************************************)
Dict(d) == [kind |-> "dict", d |-> d]
Tuple(items) == [kind |-> "tuple", items |-> items]
NoValue == [kind |-> "none"]

ResponseKey(s) == IF s = "llamachat" THEN "Response" ELSE "response"
InputKey(s) == IF s = "llamachat" THEN "Input" ELSE "input"
TimeKey(s) == IF s = "llamachat" THEN "Time" ELSE "time"

(***************************************************************************)
(* generate_response: what it returns, what it logs, what it shows, and    *)
(* the exception that leaves it.  `except Exception` does not catch a      *)
(* BaseException; formatting the log line calls str(e); st.error is a      *)
(* framework call, at which a pending rerun stops the run (`stop`) with    *)
(* an exception that is a BaseException too.                               *)
(***************************************************************************)
generate_response_timed_failure(s, text, o, stop) ==
    IF o.kind = "ok"
    THEN [value |-> Dict(IF s = "llamachat"
                         THEN [Response |-> o.text, Input |-> text, Time |-> o.dt]
                         ELSE [response |-> o.text, input |-> text, time |-> o.dt]),
          logged |-> 0, shown |-> <<>>, raised |-> FALSE, exception |-> "none"]
    ELSE IF o.kind = "base"
    THEN [value |-> NoValue, logged |-> 0, shown |-> <<>>,
          raised |-> TRUE, exception |-> "BaseException"]
    ELSE IF o.kind = "badstr"
    THEN [value |-> NoValue, logged |-> 0, shown |-> <<>>,
          raised |-> TRUE, exception |-> "StrError"]
    ELSE IF stop
    THEN [value |-> NoValue, logged |-> 1, shown |-> <<>>,
          raised |-> TRUE, exception |-> "Stopped"]
    ELSE [value |-> Tuple(<<SorryMsg, 0, 0, o.dt>>),
          logged |-> 1, shown |-> <<SorryMsg>>, raised |-> FALSE, exception |-> "none"]

generate_response(s, text, o, stop) ==
    IF o.kind = "ok"
    THEN [value |-> Dict(IF s = "llamachat"
                         THEN [Response |-> o.text, Input |-> text, Time |-> o.dt]
                         ELSE [response |-> o.text, input |-> text, time |-> o.dt]),
          logged |-> 0, shown |-> <<>>, raised |-> FALSE, exception |-> "none"]
    ELSE IF o.kind = "base"
    THEN [value |-> NoValue, logged |-> 0, shown |-> <<>>,
          raised |-> TRUE, exception |-> "BaseException"]
    ELSE IF o.kind = "badstr"
    THEN [value |-> NoValue, logged |-> 0, shown |-> <<>>,
          raised |-> TRUE, exception |-> "StrError"]
    ELSE IF stop
    THEN [value |-> NoValue, logged |-> 1, shown |-> <<>>,
          raised |-> TRUE, exception |-> "Stopped"]
    ELSE [value |-> Tuple(<<SorryMsg, 0, 0, 0>>),
          logged |-> 1, shown |-> <<SorryMsg>>, raised |-> FALSE, exception |-> "none"]

(***************************************************************************)
(* Where the framework can stop a run of sl_llamachat.py: at an st.* call, *)
(* when the user has interacted again since the run began.                 *)
(*   "widgets"      lines 92-109, before Clear History takes effect        *)
(*   "question"     line 123, before the random question is stored         *)
(*   "input"        lines 131-134, before the first adapter call           *)
(*   "error1"       st.error of the first generate_response                *)
(*   "spinner"      line 145, entering st.spinner                          *)
(*   "error2"       st.error of the second generate_response               *)
(*   "spinner_exit" line 145, leaving st.spinner, before the append        *)
(*   "write", n     in display_chat_history, after n writes                *)
(***************************************************************************)
\* st.write x 4 and st.divider for each entry
WritesPerEntry == 5

NoStop == [at |-> "none", n |-> 0]

\* the stops of a run that renders at most `entries` entries
Stops(entries) ==
    {NoStop}
    \cup [at : {"widgets", "question", "input", "error1", "spinner", "error2",
                "spinner_exit"}, n : {0}]
    \cup [at : {"write"}, n : 0 .. WritesPerEntry * entries - 1]

(***************************************************************************)
(* display_chat_history: newest first, one st.* call after the other; the  *)
(* first subscript that fails raises and ends the rendering.               *)
(***************************************************************************)
Reverse(s) == [i \in 1 .. Len(s) |-> s[Len(s) + 1 - i]]

Write(label, value) == [label |-> label, value |-> value]

\* the writes of one entry, and the exception that ends them
EntryWrites(s, entry) ==
    IF entry.kind # "dict" THEN [out |-> <<>>, exc |-> "TypeError"]
    ELSE IF "Input" \notin DOMAIN entry.d THEN [out |-> <<>>, exc |-> "KeyError"]
    ELSE IF ResponseKey(s) \notin DOMAIN entry.d
    THEN [out |-> <<Write("User", entry.d["Input"])>>, exc |-> "KeyError"]
    ELSE IF TimeKey(s) \notin DOMAIN entry.d
    THEN [out |-> <<Write("User", entry.d["Input"]),
                    Write("Llama", entry.d[ResponseKey(s)]),
                    Write("WordCount", Len(entry.d[ResponseKey(s)]))>>,
          exc |-> "KeyError"]
    ELSE [out |-> <<Write("User", entry.d["Input"]),
                    Write("Llama", entry.d[ResponseKey(s)]),
                    Write("WordCount", Len(entry.d[ResponseKey(s)])),
                    Write("TimeTaken", entry.d[TimeKey(s)]),
                    Write("divider", 0)>>,
          exc |-> "none"]

RECURSIVE Render(_, _)
Render(s, entries) ==
    IF entries = <<>> THEN [out |-> <<>>, exc |-> "none"]
    ELSE LET one == EntryWrites(s, Head(entries))
         IN  IF one.exc # "none" THEN one
             ELSE LET rest == Render(s, Tail(entries))
                  IN  [out |-> one.out \o rest.out, exc |-> rest.exc]

display_chat_history(s, history, stop) ==
    LET full == Render(s, Reverse(history))
    IN  IF stop.at = "write" /\ stop.n < Len(full.out)
        THEN [out |-> SubSeq(full.out, 1, stop.n), exc |-> "Stopped"]
        ELSE full

Call(prompt, o) == [prompt |-> prompt, kind |-> o.kind, text |-> o.text]

\* how a run ended and what it left behind
Ended(history, text, cs, logged, exc, out, n) ==
    [history |-> history, text |-> text, calls |-> cs, logged |-> logged,
     crashed |-> exc, rendered |-> out, added |-> n]

(***************************************************************************)
(* main() of sl_llamachat.py, one run.  `old` is the text box before the   *)
(* interaction and `text` after it, `clear` whether Clear History was the  *)
(* button pressed, `random` whether Get Random Question was, o1 and o2     *)
(* what the backend does on the first and the second call, `stop` where    *)
(* the framework stops the run.                                            *)
(***************************************************************************)
llamachat_main(history, old, text, tone, clear, random, o1, o2, stop) ==
    LET h0 == IF clear THEN <<>> ELSE history
        prompt == build_prompt("llamachat", tone, text)
        first == generate_response("llamachat", prompt, o1, stop.at = "error1")
        second == generate_response("llamachat", text, o2, stop.at = "error2")
        c1 == <<Call(prompt, o1)>>
        c2 == <<Call(prompt, o1), Call(text, o2)>>
        h1 == Append(h0, second.value)
    IN  IF stop.at = "widgets"
        THEN Ended(history, IF random THEN old ELSE text, <<>>, 0, "Stopped", <<>>, 0)
        ELSE IF stop.at = "question"
        THEN Ended(h0, IF random THEN old ELSE text, <<>>, 0, "Stopped", <<>>, 0)
        ELSE IF stop.at = "input"
        THEN Ended(h0, text, <<>>, 0, "Stopped", <<>>, 0)
        ELSE IF first.raised
        THEN Ended(h0, text, c1, first.logged, first.exception, <<>>, 0)
        ELSE IF text = <<>>
        THEN LET shown == display_chat_history("llamachat", h0, stop)
             IN  Ended(h0, text, c1, first.logged, shown.exc, shown.out, 0)
        ELSE IF stop.at = "spinner"
        THEN Ended(h0, text, c1, first.logged, "Stopped", <<>>, 0)
        \* leaving the `with st.spinner` block is a framework call too, and it
        \* is made whether the block returned or an exception is leaving it
        ELSE IF stop.at = "spinner_exit"
        THEN Ended(h0, text, c2, first.logged + second.logged, "Stopped", <<>>, 0)
        ELSE IF second.raised
        THEN Ended(h0, text, c2, first.logged + second.logged, second.exception,
                   <<>>, 0)
        ELSE LET shown == display_chat_history("llamachat", h1, stop)
             IN  Ended(h1, text, c2, first.logged + second.logged, shown.exc,
                       shown.out, 1)

(***************************************************************************)
(* A run of sl_llm_philosopher.py: the file does not compile, so the run   *)
(* ends with SyntaxError before any statement of it: no widget, no adapter *)
(* call, the session state as it was.                                      *)
(***************************************************************************)
philosopher_main(history, old, text, tone, clear, random, o1, o2, stop) ==
    Ended(history, IF random THEN old ELSE text, <<>>, 0, "SyntaxError", <<>>, 0)

main(s, history, old, text, tone, clear, random, o1, o2, stop) ==
    IF s = "llamachat"
    THEN llamachat_main(history, old, text, tone, clear, random, o1, o2, stop)
    ELSE philosopher_main(history, old, text, tone, clear, random, o1, o2, stop)

\* what ends a run early from inside a framework call or generate_response
CutShort == {"Stopped", "BaseException", "StrError"}

(***************************************************************************)
(* The session: every widget interaction reruns the script.                *)
(***************************************************************************)
SessionInit ==
    /\ chat_history = <<>>
    /\ user_input = <<>>
    /\ selected_tone = TONES(script)[1]
    /\ log = 0
    /\ runs = 0
    /\ trigger = "none"
    /\ calls = <<>>
    /\ crashed = "none"
    /\ rendered = <<>>
    /\ added = 0
    /\ submissions = 0
    /\ appended = 0
    /\ subs = <<>>
    /\ cut = 0

UnitIdle ==
    /\ u_pc = "idle"
    /\ u_tone = None
    /\ u_question = <<>>
    /\ u_outcome = [kind |-> "exception", text |-> <<>>, dt |-> 0]
    /\ u_stop = FALSE
    /\ u_prompt = <<>>
    /\ u_ret = [value |-> NoValue, logged |-> 0, shown |-> <<>>,
                raised |-> FALSE, exception |-> "none"]

Init ==
    /\ script \in Scripts
    /\ SessionInit
    /\ UnitIdle

\* what main can observe of the backend: the time a failing call took is lost
RunOutcomes == {o \in Outcomes : o.kind = "ok" \/ o.dt = 0}

\* the ways one run can end
Endings(s, history, old, text, tone, clear, random) ==
    {main(s, history, old, text, tone, clear, random, o1, o2, stop) :
        o1 \in RunOutcomes, o2 \in RunOutcomes, stop \in Stops(Len(history) + 1)}

\* one run of the script after the interaction `trig`
Run(trig, text, tone, clear, submitted) ==
    /\ runs < MaxRuns
    /\ \E m \in Endings(script, chat_history, user_input, text, tone, clear,
                         trig = "random") :
          /\ chat_history' = m.history
          /\ user_input' = m.text
          /\ calls' = m.calls
          /\ log' = log + m.logged
          /\ crashed' = m.crashed
          /\ rendered' = m.rendered
          /\ added' = m.added
          /\ appended' = appended + m.added
          /\ cut' = cut + (IF m.crashed \in CutShort THEN 1 ELSE 0)
    /\ selected_tone' = tone
    /\ runs' = runs + 1
    /\ trigger' = trig
    /\ submissions' = submissions + (IF submitted THEN 1 ELSE 0)
    /\ subs' = (IF clear THEN <<>> ELSE subs)
               \o (IF submitted THEN <<[question |-> text, tone |-> tone]>> ELSE <<>>)
    /\ UNCHANGED <<script, unit_vars>>

\* the page is opened: the first run, nothing typed
FirstLoad ==
    /\ runs = 0
    /\ Run("load", user_input, selected_tone, FALSE, FALSE)

\* the user changes the text box and presses Enter
EnterText(q) ==
    /\ runs > 0
    /\ q # user_input
    /\ Run("text", q, selected_tone, FALSE, q # <<>>)

\* "Get Random Question": random.choice(questions) goes into the text box
GetRandomQuestion(q) ==
    /\ runs > 0
    /\ Run("random", q, selected_tone, FALSE, TRUE)

ExplainTone ==
    /\ runs > 0
    /\ Run("explain", user_input, selected_tone, FALSE, FALSE)

ClearHistory ==
    /\ runs > 0
    /\ Run("clear", user_input, selected_tone, TRUE, FALSE)

SelectTone(t) ==
    /\ runs > 0
    /\ t # selected_tone
    /\ Run("tone", user_input, t, FALSE, FALSE)

\* model, temperature or max tokens changed in the sidebar
ChangeModelConfig ==
    /\ runs > 0
    /\ Run("config", user_input, selected_tone, FALSE, FALSE)

ShownTones(s) == {TONES(s)[i] : i \in 1 .. TonesShown}

Next ==
    \/ FirstLoad
    \/ \E q \in TypedTexts \cup {<<>>} : EnterText(q)
    \/ \E q \in FileQuestions : GetRandomQuestion(q)
    \/ ExplainTone
    \/ ClearHistory
    \/ \E t \in ShownTones(script) : SelectTone(t)
    \/ ChangeModelConfig

Spec == Init /\ [][Next]_vars

\* the session of the plain chat script alone
InitChat == Init /\ script = "llamachat"

SpecChat == InitChat /\ [][Next]_vars

(***************************************************************************)
(* Function-level harness: build_prompt and generate_response applied to   *)
(* drawn arguments.                                                        *)
(***************************************************************************)
UnitInit ==
    /\ script \in Scripts
    /\ SessionInit
    /\ u_pc = "start"
    /\ u_tone \in ToneNames \cup {None}
    /\ u_question \in Questions
    /\ u_outcome \in Outcomes
    /\ u_stop \in BOOLEAN
    /\ u_prompt = <<>>
    /\ u_ret = [value |-> NoValue, logged |-> 0, shown |-> <<>>,
                raised |-> FALSE, exception |-> "none"]

UnitBuildPrompt ==
    /\ u_pc = "start"
    /\ u_prompt' = build_prompt(script, u_tone, u_question)
    /\ u_pc' = "built"
    /\ UNCHANGED <<script, session_vars, u_tone, u_question, u_outcome, u_stop, u_ret>>

UnitGenerateResponse ==
    /\ u_pc = "built"
    /\ u_ret' = generate_response(script, u_prompt, u_outcome, u_stop)
    /\ u_pc' = "done"
    /\ UNCHANGED <<script, session_vars, u_tone, u_question, u_outcome, u_stop,
                   u_prompt>>

UnitNext == UnitBuildPrompt \/ UnitGenerateResponse

SpecUnit == UnitInit /\ [][UnitNext]_vars

(***************************************************************************)
(* Helpers of the properties.                                              *)
(***************************************************************************)
\* the numbers a value returned by generate_response carries
NumericFields(s, v) ==
    IF v.kind = "tuple" THEN {v.items[i] : i \in 2 .. Len(v.items)}
    ELSE IF v.kind = "dict" THEN {v.d[TimeKey(s)]}
    ELSE {}

OccursAt(part, text, i) ==
    /\ i + Len(part) - 1 <= Len(text)
    /\ SubSeq(text, i, i + Len(part) - 1) = part

\* `first` occurs in `text` and `second` occurs after the end of it
OccursBefore(first, second, text) ==
    \E i \in 1 .. Len(text) + 1 :
        /\ OccursAt(first, text, i)
        /\ \E j \in i + Len(first) .. Len(text) + 1 : OccursAt(second, text, j)

\* the keys of a complete ResultRecord
RecordKeys(s) ==
    {InputKey(s), ResponseKey(s), TimeKey(s)}
    \cup (IF s = "philosopher" THEN {"class"} ELSE {})

\* the keys display_chat_history subscripts an entry with
DisplayKeys(s) == {"Input", ResponseKey(s), TimeKey(s)}

IsResultRecord(s, entry) ==
    /\ entry.kind = "dict"
    /\ RecordKeys(s) \subseteq DOMAIN entry.d
    /\ DisplayKeys(s) \subseteq DOMAIN entry.d

\* the last run was not cut short by the framework or an escaping exception
RanOn == runs > 0 /\ crashed \notin CutShort

\* the last run handled a question the user had just submitted
HandledSubmission ==
    /\ RanOn
    /\ trigger \in {"text", "random"}
    /\ user_input # <<>>

\* the last run handled a question and its last adapter call raised an
\* ordinary Exception
FailedWhileHandling ==
    /\ RanOn
    /\ user_input # <<>>
    /\ calls # <<>>
    /\ calls[Len(calls)].kind = "exception"

\* entry is the record of the submission sub
RecordOf(s, entry, sub) ==
    /\ entry.kind = "dict"
    /\ InputKey(s) \in DOMAIN entry.d
    /\ entry.d[InputKey(s)]
          \in {sub.question, build_prompt(s, sub.tone, sub.question)}

\* the page shows exactly the history, newest first
RenderedNewestFirst ==
    /\ Len(rendered) = WritesPerEntry * Len(chat_history)
    /\ \A i \in 1 .. Len(chat_history) :
          LET entry == chat_history[Len(chat_history) + 1 - i]
              at == WritesPerEntry * (i - 1)
          IN  /\ entry.kind = "dict"
              /\ rendered[at + 2].label = "Llama"
              /\ rendered[at + 2].value = entry.d[ResponseKey(script)]
              /\ rendered[at + 4].label = "TimeTaken"
              /\ rendered[at + 4].value = entry.d[TimeKey(script)]

(***************************************************************************)
(* C1, as claimed: when the adapter call raises any exception,             *)
(* generate_response returns normally, writes exactly one error log entry  *)
(* and returns the degraded value whose numeric fields are all zero.       *)
(***************************************************************************)
C1_AnyExceptionIsAbsorbed ==
    (u_pc = "done" /\ u_outcome.kind # "ok" /\ ~u_stop) =>
        /\ ~u_ret.raised
        /\ u_ret.logged = 1
        /\ NumericFields(script, u_ret.value) = {0}

(***************************************************************************)
(* C1, amended: when the adapter call raises an Exception whose message    *)
(* formats, and the framework does not stop the run at st.error,           *)
(* generate_response returns normally, writes exactly one error log entry  *)
(* and returns the degraded value whose numeric fields are all zero.       *)
(***************************************************************************)
C1_ExceptionGivesZeroRecord ==
    (u_pc = "done" /\ u_outcome.kind = "exception" /\ ~u_stop) =>
        /\ ~u_ret.raised
        /\ u_ret.logged = 1
        /\ NumericFields(script, u_ret.value) = {0}

C1_Witness ==
    /\ u_pc = "done"
    /\ u_outcome.kind = "exception"
    /\ ~u_stop
    /\ u_outcome.dt > 0
    /\ script = "philosopher"
    /\ u_ret.logged = 1

(***************************************************************************)
(* C2: when an adapter call fails while a question is handled, the run     *)
(* still completes: no exception ends it, exactly one degraded entry is    *)
(* appended, and the history is rendered.                                  *)
(***************************************************************************)
C2_FailureNeverPropagates ==
    FailedWhileHandling =>
        /\ crashed = "none"
        /\ added = 1
        /\ Len(rendered) = WritesPerEntry * Len(chat_history)

(***************************************************************************)
(* C3: every element of the history is a complete ResultRecord whose       *)
(* fields the display can read.                                            *)
(***************************************************************************)
C3_HistoryHoldsCompleteRecords ==
    \A i \in 1 .. Len(chat_history) : IsResultRecord(script, chat_history[i])

(***************************************************************************)
(* C4: in the classification script a submitted question causes exactly    *)
(* two adapter calls, the answer call second, and one appended record that *)
(* holds the answer text and the classification text.                      *)
(***************************************************************************)
C4_ClassifyThenAnswer ==
    (script = "philosopher" /\ HandledSubmission) =>
        /\ Len(calls) = 2
        /\ calls[1].prompt # calls[2].prompt
        /\ calls[2].prompt = build_prompt(script, selected_tone, user_input)
        /\ added = 1
        /\ LET entry == chat_history[Len(chat_history)]
           IN  /\ entry.kind = "dict"
               /\ {"response", "class"} \subseteq DOMAIN entry.d

(***************************************************************************)
(* C5: a submission triggers exactly one adapter call in the plain chat    *)
(* script and exactly two in the classification script.                    *)
(***************************************************************************)
C5_CallsPerSubmission ==
    (HandledSubmission /\ crashed = "none") =>
        Len(calls) = (IF script = "llamachat" THEN 1 ELSE 2)

(***************************************************************************)
(* C6: the number of records appended equals the number of question        *)
(* submissions, and a run that no new submission triggered appends none    *)
(* (as long as no run was cut short).                                      *)
(***************************************************************************)
C6_OneRecordPerSubmission ==
    cut = 0 =>
        /\ appended = submissions
        /\ (runs > 0 /\ trigger \notin {"text", "random"}) => added = 0

(***************************************************************************)
(* C7: for the tone "Neutral" or None, build_prompt returns the question   *)
(* unchanged, in both scripts.                                             *)
(***************************************************************************)
C7_NeutralReturnsQuestion ==
    (u_pc # "start" /\ u_tone \in {Neutral, None}) => u_prompt = u_question

(***************************************************************************)
(* C8: for every tone other than "Neutral", build_prompt's output contains *)
(* the tone name and, after it, the question verbatim.                     *)
(***************************************************************************)
C8_ToneThenQuestionVerbatim ==
    (u_pc # "start" /\ u_tone \in ToneNames \ {Neutral}) =>
        OccursBefore(u_tone, u_question, u_prompt)

C8_Witness ==
    /\ u_pc = "built"
    /\ script = "philosopher"
    /\ u_tone = philosopher_TONES[4]
    /\ u_question = <<"*", "{">>
    /\ Len(u_prompt) > Len(u_tone) + Len(u_question)

(***************************************************************************)
(* C9: the history is the records of the submissions made since the last   *)
(* clear, in order, and the page shows exactly these, newest first (as     *)
(* long as no run was cut short).                                          *)
(***************************************************************************)
C9_HistoryIsSubmissionsSinceClear ==
    cut = 0 =>
        /\ Len(chat_history) = Len(subs)
        /\ \A i \in 1 .. Len(chat_history) :
              i <= Len(subs) => RecordOf(script, chat_history[i], subs[i])
        /\ runs > 0 => RenderedNewestFirst

(***************************************************************************)
(* C10: the record appended for a question holds the response of the call  *)
(* whose prompt is build_prompt(selected tone, question).                  *)
(***************************************************************************)
C10_RecordedAnswerUsesTone ==
    (runs > 0 /\ added = 1 /\ chat_history[Len(chat_history)].kind = "dict") =>
        LET entry == chat_history[Len(chat_history)]
            prompt == build_prompt(script, selected_tone, user_input)
        IN  /\ entry.d[InputKey(script)] = prompt
            /\ \E i \in DOMAIN calls :
                  /\ calls[i].prompt = prompt
                  /\ calls[i].kind = "ok"
                  /\ calls[i].text = entry.d[ResponseKey(script)]

=============================================================================
